---- MODULE Spec2Model ----
(***************************************************************************)
(* A model of ImgViewer (src/src/main.rs): the tiler of load_assets, the   *)
(* album navigation of preload with its worker threads and channel, and    *)
(* the per-frame callback LeanViewer::update, followed statement by        *)
(* statement through the position pc.                                      *)
(*                                                                         *)
(* f32 values (zoom, offset, fit_zoom) are modelled as exact rationals     *)
(* <<numerator, denominator>> in lowest terms; rounding is not modelled.   *)
(* Pixel coordinates of tiles are integers well below 2^24 and are exact   *)
(* in f32.                                                                 *)
(***************************************************************************)
EXTENDS Integers, Sequences, FiniteSets, TLC

(* ------------------------------ bounds -------------------------------- *)
\* threads a session that navigates spawns
MaxSpawn == 2
\* scroll and drag events, of a session that never navigates, since the
\* offset was last set to zero
MaxGestures == 2
\* largest image side and tile limit tried by the tiler's own specification
MaxDim == 5
MaxLimit == 3

(* --------------------------- f32 arithmetic --------------------------- *)
Abs(n) == IF n < 0 THEN -n ELSE n

RECURSIVE GCD(_, _)
GCD(a, b) == IF b = 0 THEN a ELSE GCD(b, a % b)

\* the rational n/d (d # 0) in lowest terms with a positive denominator
Rat(n, d) ==
    LET s == IF d < 0 THEN -1 ELSE 1
        g == GCD(Abs(n), Abs(d))
    IN  <<(s * n) \div g, (s * d) \div g>>

FromInt(n) == <<n, 1>>

\* sums over the least common denominator and products reduced crosswise,
\* so that no intermediate value is larger than the operands need
RAdd(a, b) ==
    LET g == GCD(a[2], b[2])
    IN  Rat(a[1] * (b[2] \div g) + b[1] * (a[2] \div g), (a[2] \div g) * b[2])
RNeg(a) == <<-a[1], a[2]>>
RSub(a, b) == RAdd(a, RNeg(b))
RMul(a, b) ==
    LET g1 == GCD(Abs(a[1]), b[2])
        g2 == GCD(Abs(b[1]), a[2])
    IN  Rat((a[1] \div g1) * (b[1] \div g2), (a[2] \div g2) * (b[2] \div g1))
RAbs(a) == <<Abs(a[1]), a[2]>>

\* a < b, by integer parts and then by the reciprocals of the fractions
RECURSIVE RLess(_, _)
RLess(a, b) ==
    LET qa == a[1] \div a[2]
        qb == b[1] \div b[2]
        ra == a[1] % a[2]
        rb == b[1] % b[2]
    IN  IF qa # qb THEN qa < qb
        ELSE IF rb = 0 THEN FALSE
        ELSE IF ra = 0 THEN TRUE
        ELSE RLess(<<b[2], rb>>, <<a[2], ra>>)
RMin(a, b) == IF RLess(b, a) THEN b ELSE a

\* egui::Vec2 / Pos2 as a pair of rationals
Vec2(x, y) == <<FromInt(x), FromInt(y)>>
ZERO == Vec2(0, 0)
VAdd(u, v) == <<RAdd(u[1], v[1]), RAdd(u[2], v[2])>>
VSub(u, v) == <<RSub(u[1], v[1]), RSub(u[2], v[2])>>
VScale(u, k) == <<RMul(u[1], k), RMul(u[2], k)>>

(* ------------------------------ the disk ------------------------------ *)
\* The directory of the opened image.  x.PNM decodes but its extension is
\* not one the album keeps; notes.txt is no image.
Paths == {"a.png", "b.png", "c.png", "x.PNM", "notes.txt"}

\* lexicographic order of the paths (Ord of PathBuf), as ranks
PathRank ==
    [p \in Paths |->
        CASE p = "a.png" -> 1 [] p = "b.png" -> 2 [] p = "c.png" -> 3
          [] p = "notes.txt" -> 4 [] p = "x.PNM" -> 5]

extension(p) ==
    CASE p \in {"a.png", "b.png", "c.png"} -> "png"
      [] p = "x.PNM" -> "PNM"
      [] p = "notes.txt" -> "txt"

to_lowercase(s) == IF s = "PNM" THEN "pnm" ELSE s

\* <<width, height>> of the picture a file holds; notes.txt holds none
dimensions(p) ==
    CASE p = "a.png" -> <<4000, 3000>>
      [] p = "b.png" -> <<2000, 1500>>
      [] p = "c.png" -> <<500, 250>>
      [] p = "x.PNM" -> <<4000, 3000>>

Decodable == {"a.png", "b.png", "c.png", "x.PNM"}

\* the file that may be deleted while the viewer runs
Removable == {"c.png"}

(* ------------------------------ the tiler ----------------------------- *)
tile_limit == 2048

Min(a, b) == IF a < b THEN a ELSE b

\* step_by that yields only the starts of whole steps
RECURSIVE step_by_whole(_, _, _)
step_by_whole(x, n, step) ==
    IF x + step > n THEN <<>> ELSE <<x>> \o step_by_whole(x + step, n, step)

\* (0..n).step_by(step) from x on: x, x+step, ... while below n
RECURSIVE step_by(_, _, _)
step_by(x, n, step) ==
    IF x >= n THEN <<>> ELSE <<x>> \o step_by(x + step, n, step)

\* one tile: the texture name (path, x, y) and the source rectangle
ImageTile(path, x, y, tw, th) ==
    [texture |-> <<path, x, y>>, rect |-> [min |-> <<x, y>>, size |-> <<tw, th>>]]

\* the inner loop without the clipping of the last column and row
TileRowPadded(path, width, height, limit, y) ==
    LET xs == step_by(0, width, limit)
    IN  [i \in 1..Len(xs) |-> ImageTile(path, xs[i], y, limit, limit)]

\* the inner loop: the tiles of the row at y
TileRow(path, width, height, limit, y) ==
    LET xs == step_by(0, width, limit)
    IN  [i \in 1..Len(xs) |->
            ImageTile(path, xs[i], y,
                      Min(limit, width - xs[i]), Min(limit, height - y))]

RECURSIVE Concat(_)
Concat(rows) == IF rows = <<>> THEN <<>> ELSE Head(rows) \o Concat(Tail(rows))

\* the loops nested the other way round: x outside, y inside
TilerByColumns(path, width, height, limit) ==
    LET xs == step_by(0, width, limit)
        ys == step_by(0, height, limit)
    IN  Concat([i \in 1..Len(xs) |->
                   [j \in 1..Len(ys) |->
                       ImageTile(path, xs[i], ys[j],
                                 Min(limit, width - xs[i]),
                                 Min(limit, height - ys[j]))]])

\* the loops of load_assets over an image of width x height
Tiler(path, width, height, limit) ==
    LET ys == step_by(0, height, limit)
    IN  Concat([j \in 1..Len(ys) |-> TileRow(path, width, height, limit, ys[j])])

(* ------------------------------ the album ----------------------------- *)
AlbumExt == {"jpg", "jpeg", "png", "webp", "bmp", "gif", "heic", "heif", "tiff", "tga"}

\* Vec::sort of a set of paths
RECURSIVE sort(_)
sort(S) ==
    IF S = {} THEN <<>>
    ELSE LET m == CHOOSE p \in S : \A q \in S : PathRank[p] <= PathRank[q]
         IN  <<m>> \o sort(S \ {m})

\* read_dir of the parent, filtered by extension and sorted
ReadAlbum(files) == sort({p \in files : to_lowercase(extension(p)) \in AlbumExt})

\* load_assets: decode, tile, enumerate.  ok = FALSE is the panic of expect().
load_assets(path, files) ==
    IF path \in files /\ path \in Decodable
    THEN LET d == dimensions(path)
         IN  [ok |-> TRUE,
              tiles |-> Tiler(path, d[1], d[2], tile_limit),
              full_size |-> d,
              album |-> ReadAlbum(files)]
    ELSE [ok |-> FALSE, tiles |-> <<>>, full_size |-> <<0, 0>>, album |-> <<>>]

(* ------------------------- viewport arithmetic ------------------------ *)
\* a rotation that forgets the modulus
rotate_cw_unbounded(steps) == steps + 1

\* self.rotation_steps = (self.rotation_steps + 1) % 4
rotate_cw(steps) == (steps + 1) % 4

\* effective_size: full_size with x and y swapped when sideways
effective_size(size, steps) ==
    LET is_sideways == steps % 2 # 0
    IN  IF is_sideways THEN <<size[2], size[1]>> ELSE size

\* a fit that looks at the width alone
fit_width(display, es) == Rat(display[1], es[1])

\* fit_zoom of a display of size display over an image of effective size es
fit(display, es) ==
    RMin(Rat(display[1], es[1]), Rat(display[2], es[2]))

\* the toggle without abs()
toggle_zoom_signed(z, fz) ==
    IF RLess(RSub(z, fz), Rat(1, 100)) THEN FromInt(1) ELSE fz

\* the zoom chosen by a double click or by the F key
toggle_zoom(z, fz) ==
    IF RLess(RAbs(RSub(z, fz)), Rat(1, 100)) THEN FromInt(1) ELSE fz

\* display_rect.center() of a display whose min is the origin
center_of(display) == <<Rat(display[1], 2), Rat(display[2], 2)>>

\* a scroll that takes the middle of the panel for the centre of the image
zoom_offset_unpanned(off, display, mouse_pos, factor) ==
    LET center == center_of(display)
    IN  VSub(off, VScale(VSub(mouse_pos, center), RSub(factor, FromInt(1))))

\* the offset after a scroll by factor with the pointer hovering at mouse_pos
zoom_offset(off, display, mouse_pos, factor) ==
    LET center == VAdd(center_of(display), off)
    IN  VSub(off, VScale(VSub(mouse_pos, center), RSub(factor, FromInt(1))))

\* a / b for b # 0
RDiv(a, b) == RMul(a, IF b[1] < 0 THEN <<-b[2], -b[1]>> ELSE <<b[2], b[1]>>)

\* Rot2::from_angle(steps * FRAC_PI_2) * v: (x cos - y sin, x sin + y cos)
rotate(v, steps) ==
    CASE steps % 4 = 0 -> v
      [] steps % 4 = 1 -> <<RNeg(v[2]), v[1]>>
      [] steps % 4 = 2 -> <<RNeg(v[1]), RNeg(v[2])>>
      [] steps % 4 = 3 -> <<v[2], RNeg(v[1])>>

\* where the paint loop puts the source point src: its position relative to
\* the middle of the image, rotated, scaled by zoom, moved to center
project(src, center, z, steps, size) ==
    LET half == <<Rat(size[1], 2), Rat(size[2], 2)>>
    IN  VAdd(center, VScale(rotate(VSub(src, half), steps), z))

\* a corner of a rectangle with the given middle and half extents, turned
\* about the middle (mesh.rotate); sx and sy are -1 or 1
corner(middle, hx, hy, sx, sy, steps) ==
    VAdd(middle, rotate(<<IF sx < 0 THEN RNeg(hx) ELSE hx,
                          IF sy < 0 THEN RNeg(hy) ELSE hy>>, steps))

\* a mesh whose corners are not turned
mesh_unturned(tile, center, z, steps, size) ==
    LET tile_size == VScale(Vec2(tile.rect.size[1], tile.rect.size[2]), z)
        tile_center == <<Rat(2 * tile.rect.min[1] + tile.rect.size[1], 2),
                         Rat(2 * tile.rect.min[2] + tile.rect.size[2], 2)>>
        middle == project(tile_center, center, z, steps, size)
        hx == RDiv(tile_size[1], FromInt(2))
        hy == RDiv(tile_size[2], FromInt(2))
    IN  [texture |-> tile.texture,
         pos |-> <<corner(middle, hx, hy, -1, -1, 0),
                   corner(middle, hx, hy, 1, -1, 0),
                   corner(middle, hx, hy, -1, 1, 0),
                   corner(middle, hx, hy, 1, 1, 0)>>]

\* the mesh of one tile: add_rect_with_uv over the rectangle of size
\* tile.rect.size() * zoom about center + rotated_pos * zoom, its corners
\* (left top, right top, left bottom, right bottom) then turned about the
\* middle of that rectangle
mesh_of(tile, center, z, steps, size) ==
    LET tile_size == VScale(Vec2(tile.rect.size[1], tile.rect.size[2]), z)
        tile_center == <<Rat(2 * tile.rect.min[1] + tile.rect.size[1], 2),
                         Rat(2 * tile.rect.min[2] + tile.rect.size[2], 2)>>
        middle == project(tile_center, center, z, steps, size)
        hx == RDiv(tile_size[1], FromInt(2))
        hy == RDiv(tile_size[2], FromInt(2))
    IN  [texture |-> tile.texture,
         pos |-> <<corner(middle, hx, hy, -1, -1, steps),
                   corner(middle, hx, hy, 1, -1, steps),
                   corner(middle, hx, hy, -1, 1, steps),
                   corner(middle, hx, hy, 1, 1, steps)>>]

\* the paint loop: one mesh per tile, in the order of tiles
meshes(tls, center, z, steps, size) ==
    [i \in 1..Len(tls) |-> mesh_of(tls[i], center, z, steps, size)]

(* ------------------------------ navigation ---------------------------- *)
None == -1

\* a position that falls back to the first entry
position_or_first(alb, path) ==
    IF \E i \in 1..Len(alb) : alb[i] = path
    THEN (CHOOSE i \in 1..Len(alb) :
              alb[i] = path /\ \A j \in 1..(i - 1) : alb[j] # path) - 1
    ELSE 0

\* album.iter().position(|p| p == &self.current_path), 0-based, or None
position(alb, path) ==
    IF \E i \in 1..Len(alb) : alb[i] = path
    THEN (CHOOSE i \in 1..Len(alb) :
              alb[i] = path /\ \A j \in 1..(i - 1) : alb[j] # path) - 1
    ELSE None

\* the remainder of the absolute value
rem_abs(a, n) == Abs(a) % n

\* i32::rem_euclid for a positive modulus: the remainder in 0..n-1
rem_euclid(a, n) == a % n

\* the album entry a navigation by delta loads
target(alb, pos, delta) == alb[rem_euclid(pos + delta, Len(alb)) + 1]

(* ------------------------------- channel ------------------------------ *)
LoadedImage(path, tls, size) == [path |-> path, tiles |-> tls, full_size |-> size]

\* tx.send(msg)
send(queue, msg) == Append(queue, msg)

\* a receive that takes the newest message
try_recv_newest(queue) ==
    <<queue[Len(queue)], SubSeq(queue, 1, Len(queue) - 1)>>

\* rx.try_recv() on a non-empty queue: <<the message taken, the queue left>>
try_recv(queue) == <<Head(queue), Tail(queue)>>

(* ------------------------------- inputs ------------------------------- *)
\* the panel of the full-screen window, and the empty panel of a frame
\* that runs while the window has no size
Screen == <<2000, 1500>>
NoDisplay == <<0, 0>>
Displays == {NoDisplay, Screen}

\* exp(smooth_scroll_delta.y * 0.005) of a scroll down and of a small scroll up
ScrollFactors == {Rat(1, 2), Rat(65, 64)}
\* pointer.hover_pos(), when the pointer is over the window
HoverPositions == {Vec2(500, 300)}
\* pointer.delta() while a button is down
PanDeltas == {Vec2(40, -30)}

\* what a statement of update read from the frame's input: the keys and
\* clicks it found, the scroll factor, the hover position, the drag delta
Input(pressed, scroll, hover, drag) ==
    [pressed |-> pressed, scroll |-> scroll, hover |-> hover, drag |-> drag]
NoInput == Input({}, <<>>, <<>>, <<>>)
Pressed(keys) == Input(keys, <<>>, <<>>, <<>>)

\* std::env::args(): the program name, then what the user gave
ArgLists == {<<"viewer">>, <<"viewer", "b.png">>, <<"viewer", "x.PNM">>,
             <<"viewer", "notes.txt">>}

\* what the user does in a session: only navigate; or navigate once and
\* scroll or drag once between two resets of the offset; or never navigate.
\* A session with gestures also rotates and toggles, as often as it likes.
Quotas == {[spawn |-> MaxSpawn, gestures |-> 0],
           [spawn |-> 1, gestures |-> 1],
           [spawn |-> 0, gestures |-> MaxGestures]}

(* -------------------------------- state ------------------------------- *)
VARIABLES
    pc,             \* position of the main thread
    exit_code,      \* <<>> while the process runs, <<status>> once it ended
    args,           \* the command line
    disk,           \* the files of the directory
    tiles, full_size, offset, zoom, rotation_steps, first_frame,
    current_path, album,      \* the fields of LeanViewer
    chan,           \* the channel (tx, rx): LoadedImages sent and not received
    workers,        \* the threads spawned by preload that still run
    repaint,        \* a repaint was requested since the last frame began
    display_rect, fit_zoom,   \* locals of the frame being run
    input,          \* what the last statement of update read from the input
    zoom_before,    \* <<zoom before the double click of this frame>>, if any
    spawned,        \* threads spawned so far: the next thread's identity
    sent,           \* the threads that sent, in sending order
    gestures,       \* scroll and drag events since the offset was last zero
    quota,          \* the user's events this session is bounded by
    bench,          \* the tiler on its own: its arguments and its result
    painted,        \* the meshes this frame gave the painter
    framed,         \* first-frame framings since the current image was loaded
    requests        \* per thread spawned: its delta, and the loads applied then

viewer == <<tiles, full_size, offset, zoom, rotation_steps, first_frame,
            current_path, album>>
image == <<tiles, full_size, current_path>>
viewport == <<offset, zoom, rotation_steps, first_frame>>
threads == <<chan, workers, repaint, spawned, sent>>
locals == <<display_rect, fit_zoom>>
session == <<args, quota, bench>>
history == <<painted, framed, requests>>
process == <<exit_code, session>>
vars == <<pc, exit_code, args, disk, tiles, full_size, offset, zoom,
          rotation_steps, first_frame, current_path, album, chan, workers,
          repaint, display_rect, fit_zoom, input, zoom_before, spawned, sent,
          gestures, quota, bench, painted, framed, requests>>

Running == exit_code = <<>>
\* whether this session uses R, F and the double click
ViewKeys == quota.gestures > 0
InUpdate == pc \in {"recv", "keys", "layout", "dblclick", "keyF", "scroll",
                    "pan", "paint"}

NoBench == [width |-> 0, height |-> 0, limit |-> 0, tiles |-> <<>>, done |-> FALSE]

\* the process before main runs; the fields of LeanViewer do not exist yet
Boot ==
    /\ exit_code = <<>>
    /\ disk = Paths
    /\ tiles = <<>>
    /\ full_size = <<0, 0>>
    /\ offset = ZERO
    /\ zoom = FromInt(1)
    /\ rotation_steps = 0
    /\ first_frame = TRUE
    /\ current_path = ""
    /\ album = <<>>
    /\ chan = <<>>
    /\ workers = {}
    /\ repaint = FALSE
    /\ display_rect = NoDisplay
    /\ fit_zoom = FromInt(0)
    /\ input = NoInput
    /\ zoom_before = <<>>
    /\ spawned = 0
    /\ sent = <<>>
    /\ gestures = 0
    /\ painted = <<>>
    /\ framed = 0
    /\ requests = <<>>

Init ==
    /\ Boot
    /\ pc = "main"
    /\ args \in ArgLists
    /\ quota \in Quotas
    /\ bench = NoBench

\* a replacement that keeps the pan of the image before
on_loaded_keep_view(loaded) ==
    [tiles |-> loaded.tiles,
     full_size |-> loaded.full_size,
     current_path |-> loaded.path,
     offset |-> offset,
     rotation_steps |-> 0,
     first_frame |-> TRUE]

\* a replacement that keeps the size of the image before
on_loaded_mixed(loaded) ==
    [tiles |-> loaded.tiles,
     full_size |-> full_size,
     current_path |-> loaded.path,
     offset |-> ZERO,
     rotation_steps |-> 0,
     first_frame |-> TRUE]

\* lines 191-196: the fields update assigns when try_recv returned loaded
on_loaded(loaded) ==
    [tiles |-> loaded.tiles,
     full_size |-> loaded.full_size,
     current_path |-> loaded.path,
     offset |-> ZERO,
     rotation_steps |-> 0,
     first_frame |-> TRUE]

(* ------------------------------- startup ------------------------------ *)
\* main, lines 20-24: without a path argument, usage and exit(1)
Main ==
    /\ pc = "main" /\ Running
    /\ IF Len(args) < 2
       THEN pc' = "exited" /\ exit_code' = <<1>>
       ELSE pc' = "new" /\ UNCHANGED exit_code
    /\ UNCHANGED <<session, disk, viewer, threads, locals, input, zoom_before,
                   gestures, history>>

\* a start that goes on with an empty image when the first load fails
NewAnyway ==
    /\ pc = "new" /\ Running
    /\ LET path == args[2]
           r == load_assets(path, disk)
       IN  /\ tiles' = r.tiles
           /\ full_size' = IF r.ok THEN r.full_size ELSE <<1, 1>>
           /\ offset' = ZERO
           /\ zoom' = FromInt(1)
           /\ rotation_steps' = 0
           /\ first_frame' = TRUE
           /\ current_path' = path
           /\ album' = r.album
           /\ pc' = "recv"
           /\ UNCHANGED exit_code
    /\ UNCHANGED <<session, disk, threads, locals, input, zoom_before, gestures,
                   history>>

\* LeanViewer::new: the first load; its panic ends the process
New ==
    /\ pc = "new" /\ Running
    /\ LET path == args[2]
           r == load_assets(path, disk)
       IN  IF r.ok
           THEN /\ tiles' = r.tiles
                /\ full_size' = r.full_size
                /\ offset' = ZERO
                /\ zoom' = FromInt(1)
                /\ rotation_steps' = 0
                /\ first_frame' = TRUE
                /\ current_path' = path
                /\ album' = r.album
                /\ pc' = "recv"
                /\ UNCHANGED exit_code
           ELSE /\ pc' = "exited"
                /\ exit_code' = <<101>>
                /\ UNCHANGED viewer
    /\ UNCHANGED <<session, disk, threads, locals, input, zoom_before, gestures,
                   history>>

(* ------------------------- LeanViewer::update ------------------------- *)
\* a poll that also takes over the directory as it is at the delivery
RecvWithAlbum ==
    /\ pc = "recv" /\ Running
    /\ repaint' = FALSE
    /\ IF chan # <<>>
       THEN LET got == try_recv(chan)
                new == on_loaded(got[1])
            IN  /\ tiles' = new.tiles
                /\ full_size' = new.full_size
                /\ current_path' = new.current_path
                /\ offset' = new.offset
                /\ rotation_steps' = new.rotation_steps
                /\ first_frame' = new.first_frame
                /\ chan' = got[2]
                /\ gestures' = 0
                /\ framed' = 0
                /\ album' = ReadAlbum(disk)
                /\ UNCHANGED zoom
       ELSE UNCHANGED <<viewer, chan, gestures, framed>>
    /\ pc' = "keys"
    /\ input' = NoInput
    /\ painted' = <<>>
    /\ UNCHANGED <<process, disk, workers, spawned, sent, locals, zoom_before,
                   requests>>

\* lines 190-197: a frame begins and polls the channel without blocking
Recv ==
    /\ pc = "recv" /\ Running
    /\ repaint' = FALSE
    /\ IF chan # <<>>
       THEN LET got == try_recv(chan)
                new == on_loaded(got[1])
            IN  /\ tiles' = new.tiles
                /\ full_size' = new.full_size
                /\ current_path' = new.current_path
                /\ offset' = new.offset
                /\ rotation_steps' = new.rotation_steps
                /\ first_frame' = new.first_frame
                /\ chan' = got[2]
                /\ gestures' = 0
                /\ framed' = 0
                /\ UNCHANGED <<zoom, album>>
       ELSE UNCHANGED <<viewer, chan, gestures, framed>>
    /\ pc' = "keys"
    /\ input' = NoInput
    /\ painted' = <<>>
    /\ UNCHANGED <<process, disk, workers, spawned, sent, locals, zoom_before,
                   requests>>

\* the thread preload spawns: its identity, the path and the delta it was
\* given, its position, and what load_assets returned to it
Worker(id, path, delta) ==
    [id |-> id, path |-> path, delta |-> delta, at |-> "load",
     tiles |-> <<>>, full_size |-> <<0, 0>>]

\* a preload that goes on from the target of the newest load in flight
preload_chained(ts, delta) ==
    LET from == IF ts[1] = {} THEN current_path
                ELSE (CHOOSE w \in ts[1] : \A v \in ts[1] : v.id <= w.id).path
        pos == position(album, from)
    IN  IF pos # None
        THEN <<ts[1] \cup {Worker(ts[2] + 1, target(album, pos, delta), delta)},
               ts[2] + 1>>
        ELSE ts

\* a preload that waits for the loads in flight
preload_idle(ts, delta) ==
    LET pos == position(album, current_path)
    IN  IF pos # None /\ ts[1] = {}
        THEN <<ts[1] \cup {Worker(ts[2] + 1, target(album, pos, delta), delta)},
               ts[2] + 1>>
        ELSE ts

\* preload, lines 170-185, on <<the threads, their count>>
preload(ts, delta) ==
    LET pos == position(album, current_path)
    IN  IF pos # None
        THEN <<ts[1] \cup {Worker(ts[2] + 1, target(album, pos, delta), delta)},
               ts[2] + 1>>
        ELSE ts

\* what is remembered of the threads first + 1 .. last of ts: the delta of
\* each and the number of loads update had applied when it was spawned
asked(ts, first, last) ==
    [k \in 1..(last - first) |->
        LET w == CHOOSE v \in ts : v.id = first + k
        IN  [delta |-> w.delta, applied |-> Len(sent) - Len(chan)]]

\* lines 199-212: the keys of this frame, in the order the closure asks
Keys ==
    /\ pc = "keys" /\ Running
    /\ \E keys \in SUBSET {"ArrowRight", "ArrowLeft", "Escape", "R"} :
           LET t0 == <<workers, spawned>>
               t1 == IF "ArrowRight" \in keys THEN preload(t0, 1) ELSE t0
               t2 == IF "ArrowLeft" \in keys THEN preload(t1, -1) ELSE t1
           IN  /\ t2[2] <= quota.spawn
               /\ "R" \in keys => ViewKeys
               /\ input' = Pressed(keys)
               /\ workers' = t2[1]
               /\ spawned' = t2[2]
               /\ requests' = requests \o asked(t2[1], spawned, t2[2])
               /\ IF "Escape" \in keys
                  THEN /\ pc' = "exited"
                       /\ exit_code' = <<0>>
                       /\ UNCHANGED rotation_steps
                  ELSE /\ pc' = "layout"
                       /\ UNCHANGED exit_code
                       /\ rotation_steps' =
                              IF "R" \in keys THEN rotate_cw(rotation_steps)
                                              ELSE rotation_steps
    /\ UNCHANGED <<session, disk, tiles, full_size, offset, zoom, first_frame,
                   current_path, album, chan, repaint, sent, locals,
                   zoom_before, gestures, painted, framed>>

\* lines 217-225: the panel's size, fit_zoom, and the first frame's framing
Layout ==
    /\ pc = "layout" /\ Running
    /\ \E d \in Displays :
           LET fz == fit(d, effective_size(full_size, rotation_steps))
           IN  /\ display_rect' = d
               /\ fit_zoom' = fz
               /\ IF first_frame /\ d[1] > 1
                  THEN zoom' = fz /\ first_frame' = FALSE /\ framed' = framed + 1
                  ELSE UNCHANGED <<zoom, first_frame, framed>>
    /\ pc' = "dblclick"
    /\ input' = NoInput
    /\ UNCHANGED <<process, disk, tiles, full_size, offset, rotation_steps,
                   current_path, album, threads, zoom_before, gestures,
                   painted, requests>>

\* a toggle that leaves the offset
toggle_keep_offset ==
    /\ zoom' = toggle_zoom(zoom, fit_zoom)
    /\ UNCHANGED offset
    /\ gestures' = 0

\* lines 229-230 and 235-236
toggle_fit_or_100 ==
    /\ zoom' = toggle_zoom(zoom, fit_zoom)
    /\ offset' = ZERO
    /\ gestures' = 0

\* lines 227-231
DoubleClick ==
    /\ pc = "dblclick" /\ Running
    /\ \E double_clicked \in BOOLEAN :
           /\ double_clicked => ViewKeys
           /\ IF double_clicked
              THEN /\ toggle_fit_or_100
                   /\ input' = Pressed({"double_click"})
                   /\ zoom_before' = <<zoom>>
              ELSE /\ UNCHANGED <<zoom, offset, gestures, zoom_before>>
                   /\ input' = NoInput
    /\ pc' = "keyF"
    /\ UNCHANGED <<process, disk, image, rotation_steps, first_frame, album,
                   threads, locals, history>>

\* lines 234-237
KeyF ==
    /\ pc = "keyF" /\ Running
    /\ \E pressed \in BOOLEAN :
           /\ pressed => ViewKeys
           /\ IF pressed
              THEN toggle_fit_or_100 /\ input' = Pressed({"F"})
              ELSE UNCHANGED <<zoom, offset, gestures>> /\ input' = NoInput
    /\ pc' = "scroll"
    /\ UNCHANGED <<process, disk, image, rotation_steps, first_frame, album,
                   threads, locals, zoom_before, history>>

\* lines 238-245: zoom, about the pointer when it hovers over the window
Scroll ==
    /\ pc = "scroll" /\ Running
    /\ \/ UNCHANGED <<zoom, offset, gestures>> /\ input' = NoInput
       \/ /\ gestures < quota.gestures
          /\ gestures' = gestures + 1
          /\ \E zoom_factor \in ScrollFactors :
                /\ zoom' = RMul(zoom, zoom_factor)
                /\ \/ /\ UNCHANGED offset
                      /\ input' = Input({}, <<zoom_factor>>, <<>>, <<>>)
                   \/ \E mouse_pos \in HoverPositions :
                        /\ offset' = zoom_offset(offset, display_rect,
                                                 mouse_pos, zoom_factor)
                        /\ input' = Input({}, <<zoom_factor>>, <<mouse_pos>>, <<>>)
    /\ pc' = "pan"
    /\ zoom_before' = <<>>
    /\ UNCHANGED <<process, disk, image, rotation_steps, first_frame, album,
                   threads, locals, history>>

\* line 246
Pan ==
    /\ pc = "pan" /\ Running
    /\ \/ UNCHANGED <<offset, gestures>> /\ input' = NoInput
       \/ /\ gestures < quota.gestures
          /\ gestures' = gestures + 1
          /\ \E delta \in PanDeltas :
                /\ offset' = VAdd(offset, delta)
                /\ input' = Input({}, <<>>, <<>>, <<delta>>)
    /\ pc' = "paint"
    /\ UNCHANGED <<process, disk, image, zoom, rotation_steps, first_frame,
                   album, threads, locals, zoom_before, history>>

\* lines 249-276: the context menu's Exit ends the process with status 0
\* (its About entry sets show_about, which only the overlay reads);
\* otherwise the tiles are painted and the frame ends, its locals with it
Paint ==
    /\ pc = "paint" /\ Running
    /\ \E exit_clicked \in BOOLEAN :
           IF exit_clicked
           THEN /\ pc' = "exited"
                /\ exit_code' = <<0>>
                /\ input' = Pressed({"Exit"})
                /\ UNCHANGED <<locals, painted>>
           ELSE /\ pc' = "recv"
                /\ painted' = meshes(tiles, VAdd(center_of(display_rect), offset),
                                     zoom, rotation_steps, full_size)
                /\ display_rect' = NoDisplay
                /\ fit_zoom' = FromInt(0)
                /\ input' = NoInput
                /\ UNCHANGED exit_code
    /\ UNCHANGED <<session, disk, viewer, threads, zoom_before, gestures,
                   framed, requests>>

(* --------------------------- worker threads --------------------------- *)
\* a load whose panic ends the whole process
WorkerLoadAbort(w) ==
    /\ Running /\ w.at = "load"
    /\ LET r == load_assets(w.path, disk)
       IN  IF r.ok
           THEN /\ workers' = (workers \ {w}) \cup
                        {[w EXCEPT !.at = "send", !.tiles = r.tiles,
                                   !.full_size = r.full_size]}
                /\ UNCHANGED <<pc, exit_code>>
           ELSE /\ workers' = workers \ {w}
                /\ pc' = "exited"
                /\ exit_code' = <<101>>
    /\ UNCHANGED <<session, disk, viewer, chan, repaint, spawned, sent,
                   locals, input, zoom_before, gestures, history>>

\* line 176: load_assets in the thread; a panic ends the thread alone
WorkerLoad(w) ==
    /\ Running /\ w.at = "load"
    /\ LET r == load_assets(w.path, disk)
       IN  workers' = IF r.ok
                      THEN (workers \ {w}) \cup
                           {[w EXCEPT !.at = "send", !.tiles = r.tiles,
                                      !.full_size = r.full_size]}
                      ELSE workers \ {w}
    /\ UNCHANGED <<pc, process, disk, viewer, chan, repaint, spawned, sent,
                   locals, input, zoom_before, gestures, history>>

\* lines 177-181: tx.send(LoadedImage { path, tiles, full_size })
WorkerSend(w) ==
    /\ Running /\ w.at = "send"
    /\ chan' = send(chan, LoadedImage(w.path, w.tiles, w.full_size))
    /\ sent' = Append(sent, [id |-> w.id, path |-> w.path])
    /\ workers' = (workers \ {w}) \cup {[w EXCEPT !.at = "repaint"]}
    /\ UNCHANGED <<pc, process, disk, viewer, repaint, spawned, locals, input,
                   zoom_before, gestures, history>>

\* line 182: ctx.request_repaint(), and the thread ends
WorkerRepaint(w) ==
    /\ Running /\ w.at = "repaint"
    /\ repaint' = TRUE
    /\ workers' = workers \ {w}
    /\ UNCHANGED <<pc, process, disk, viewer, chan, spawned, sent, locals,
                   input, zoom_before, gestures, history>>

(* ----------------------------- environment ---------------------------- *)
\* a file of the directory is deleted
Remove(p) ==
    /\ Running /\ p \in disk
    /\ disk' = disk \ {p}
    /\ UNCHANGED <<pc, process, viewer, threads, locals, input, zoom_before,
                   gestures, history>>

Next ==
    \/ Main \/ New
    \/ Recv \/ Keys \/ Layout \/ DoubleClick \/ KeyF \/ Scroll \/ Pan \/ Paint
    \/ \E w \in workers : WorkerLoad(w)
    \/ \E w \in workers : WorkerSend(w)
    \/ \E w \in workers : WorkerRepaint(w)
    \/ \E p \in Removable : Remove(p)

Spec == Init /\ [][Next]_vars

(* ------------------------- the tiler on its own ----------------------- *)
\* an image of any size within the bounds, and any tile limit
InitTiler ==
    /\ Boot
    /\ pc = "tiler"
    /\ args = <<"viewer">>
    /\ quota = [spawn |-> 0, gestures |-> 0]
    /\ bench \in [width : 1..MaxDim, height : 1..MaxDim, limit : 1..MaxLimit,
                  tiles : {<<>>}, done : {FALSE}]

\* lines 88-113 with these dimensions and this limit
Tile ==
    /\ pc = "tiler" /\ ~bench.done
    /\ bench' = [bench EXCEPT
                    !.tiles = Tiler("img", bench.width, bench.height, bench.limit),
                    !.done = TRUE]
    /\ UNCHANGED <<pc, exit_code, args, quota, disk, viewer, threads, locals,
                   input, zoom_before, gestures, history>>

NextTiler == Tile

SpecTiler == InitTiler /\ [][NextTiler]_vars

\* the same, with a 4000 x 3000 image and the limit of the code among the
\* images tried
InitTilerWide ==
    /\ Boot
    /\ pc = "tiler"
    /\ args = <<"viewer">>
    /\ quota = [spawn |-> 0, gestures |-> 0]
    /\ \/ bench \in [width : 1..MaxDim, height : 1..MaxDim, limit : 1..MaxLimit,
                     tiles : {<<>>}, done : {FALSE}]
       \/ bench = [width |-> 4000, height |-> 3000, limit |-> tile_limit,
                   tiles |-> <<>>, done |-> FALSE]

SpecTilerWide == InitTilerWide /\ [][NextTiler]_vars

(* ----------------------- frames as the framework runs them ------------ *)
\* update is called by the framework: after ctx.request_repaint(), whose
\* requests made before the frame begins are served by that one frame, and
\* when an input event arrives.  Nothing else calls it.
FrameOnRequest == repaint /\ Recv
FrameOnInput == ~repaint /\ Recv

\* a session that navigates
InitNav == Init /\ quota = [spawn |-> MaxSpawn, gestures |-> 0]

\* the statements of update before the paint loop
Frame == Keys \/ Layout \/ DoubleClick \/ KeyF \/ Scroll \/ Pan

NextFair ==
    \/ Main \/ New
    \/ FrameOnRequest \/ FrameOnInput
    \/ Keys \/ Layout \/ DoubleClick \/ KeyF \/ Scroll \/ Pan \/ Paint
    \/ \E w \in workers : WorkerLoad(w)
    \/ \E w \in workers : WorkerSend(w)
    \/ \E w \in workers : WorkerRepaint(w)
    \/ \E p \in Removable : Remove(p)

\* main and every thread keep running, a frame that began is run to its
\* end, and a requested frame begins; input events may stop coming.
\* Paint is enabled exactly when pc = "paint" and leaves that position, so
\* its weak fairness is stated by the position.
Fairness ==
    /\ WF_vars(Main \/ New)
    /\ WF_vars(Frame)
    /\ []<>(pc # "paint")
    /\ WF_vars(FrameOnRequest)
    /\ WF_vars(\E w \in workers : WorkerLoad(w) \/ WorkerSend(w) \/ WorkerRepaint(w))

FairSpec == InitNav /\ [][NextFair]_vars /\ Fairness

(* ========================= properties checked ========================= *)
\* the pixel (x, y) lies in the source rectangle of tile t
InTile(t, x, y) ==
    /\ t.rect.min[1] <= x /\ x < t.rect.min[1] + t.rect.size[1]
    /\ t.rect.min[2] <= y /\ y < t.rect.min[2] + t.rect.size[2]

\* C1: for every width, height and tile limit of at least 1, every pixel of
\* the image lies in exactly one tile's source rectangle, and no rectangle
\* reaches outside the image.
TilesPartition ==
    bench.done =>
        /\ \A x \in 0..(bench.width - 1), y \in 0..(bench.height - 1) :
               Cardinality({i \in 1..Len(bench.tiles) :
                                InTile(bench.tiles[i], x, y)}) = 1
        /\ \A i \in 1..Len(bench.tiles) :
               LET r == bench.tiles[i].rect
               IN  /\ r.min[1] >= 0 /\ r.min[1] + r.size[1] <= bench.width
                   /\ r.min[2] >= 0 /\ r.min[2] + r.size[2] <= bench.height

\* an image tiled into a 2 x 2 grid whose last column and row are clipped
TilesPartitionWitness ==
    /\ bench.done
    /\ bench.width = 5 /\ bench.height = 4 /\ bench.limit = 3
    /\ Len(bench.tiles) = 4

\* C2: the frame that takes a load from the channel sets offset to zero and
\* rotation_steps to 0 and arms first_frame; first_frame then stays armed
\* until a frame whose panel is wider than 1, and that frame sets zoom to
\* its fit_zoom -- whatever pan, zoom and rotation the viewer had.
ViewportReset ==
    [][/\ (pc = "recv" /\ pc' = "keys" /\ chan # <<>>) =>
              offset' = ZERO /\ rotation_steps' = 0 /\ first_frame'
       /\ (first_frame /\ ~first_frame') =>
              pc = "layout" /\ display_rect'[1] > 1
       /\ (pc = "layout" /\ pc' = "dblclick" /\ first_frame
                /\ display_rect'[1] > 1) =>
              zoom' = fit_zoom' /\ ~first_frame']_vars

\* a load was taken while b.png was shown scrolled away from its fit zoom 1
ViewportResetWitness ==
    /\ pc = "keys"
    /\ Len(sent) > Len(chan)
    /\ current_path # "b.png"
    /\ first_frame /\ offset = ZERO /\ rotation_steps = 0
    /\ zoom = Rat(65, 64)

\* C3: once every thread has ended and the channel is drained, the current
\* image is the one sent last, whatever the order of the requests.
LastDeliveredWins ==
    (workers = {} /\ chan = <<>> /\ sent # <<>>) =>
        LET last == sent[Len(sent)]
        IN  /\ current_path = last.path
            /\ full_size = dimensions(last.path)
            /\ \A i \in 1..Len(tiles) : tiles[i].texture[1] = last.path

\* two loads of different images, the one requested first sent last
LastDeliveredWinsWitness ==
    /\ workers = {} /\ chan = <<>>
    /\ Len(sent) = 2
    /\ sent[2].id < sent[1].id
    /\ sent[1].path # sent[2].path
    /\ current_path = sent[2].path

\* the file of path cannot be decoded now
DecodeFails(path) == path \notin disk \/ path \notin Decodable

\* C4: the step in which a thread's decode fails ends that thread and
\* changes nothing else: nothing is sent, the process and the frame go on,
\* and the current image and the viewport are as they were.
FailedLoadInvisible ==
    [][\A w \in workers :
           (w.at = "load" /\ DecodeFails(w.path) /\ w \notin workers') =>
               /\ \A v \in workers' : v.id # w.id
               /\ UNCHANGED <<chan, sent, tiles, full_size, current_path,
                              offset, zoom, rotation_steps, first_frame,
                              album, pc, exit_code>>]_vars

\* the only thread of a session ended without sending, the view rotated
FailedLoadInvisibleWitness ==
    /\ Running /\ InUpdate
    /\ spawned = 1 /\ workers = {} /\ sent = <<>>
    /\ rotation_steps = 1

\* C5: a navigation by delta from the album index i of the current path
\* loads the entry after i (the first after the last) for Next and the
\* entry before i (the last before the first) for Previous.
NavigateTarget ==
    [][\A w \in workers' :
           w.id > spawned =>
               /\ \E i \in 1..Len(album) : album[i] = current_path
               /\ LET n == Len(album)
                      i == CHOOSE k \in 1..n : album[k] = current_path
                      j == IF w.delta = 1
                           THEN IF i = n THEN 1 ELSE i + 1
                           ELSE IF i = 1 THEN n ELSE i - 1
                  IN  /\ w.delta \in {1, -1}
                      /\ w.path = album[j]
                      /\ (album = <<"a.png", "b.png", "c.png">>
                            /\ current_path = "b.png") =>
                             w.path = IF w.delta = 1 THEN "c.png" ELSE "a.png"]_vars

\* Previous from the first of three entries has spawned a load of the last
NavigateTargetWitness ==
    /\ pc = "layout"
    /\ Len(album) = 3
    /\ current_path = album[1]
    /\ \E w \in workers : w.at = "load" /\ w.delta = -1 /\ w.path = album[3]

\* C6: while update runs, tiles, full_size and current_path are those of
\* one load: the initial one, or one result taken from the channel.
OneLoad ==
    InUpdate =>
        /\ full_size = dimensions(current_path)
        /\ tiles = Tiler(current_path, full_size[1], full_size[2], tile_limit)
        /\ \/ current_path = args[2]
           \/ \E k \in 1..(Len(sent) - Len(chan)) : sent[k].path = current_path

\* a frame paints an image that came through the channel
OneLoadWitness ==
    /\ pc = "paint"
    /\ Len(sent) > Len(chan)
    /\ current_path # args[2]

\* C7: the tiler makes ceil(W/L) * ceil(H/L) tiles, and one tile when
\* neither side exceeds the limit.
CeilDiv(a, b) == (a + b - 1) \div b

TileCount ==
    bench.done =>
        /\ Len(bench.tiles) =
               CeilDiv(bench.width, bench.limit) * CeilDiv(bench.height, bench.limit)
        /\ (bench.width <= bench.limit /\ bench.height <= bench.limit) =>
               Len(bench.tiles) = 1

\* an image smaller than the limit on both sides, tiled
TileCountWitness ==
    /\ bench.done
    /\ bench.width = 2 /\ bench.height = 1 /\ bench.limit = 3
    /\ Len(bench.tiles) = 1

\* width and height of size swapped
Swapped(size) == <<size[2], size[1]>>

\* C8: rotation_steps stays in 0..3; after a press of R three more
\* rotations bring rotation_steps and effective_size back to what they
\* were before the press; effective_size is full_size swapped exactly when
\* rotation_steps is odd.
RotationRoundTrip ==
    [][/\ rotation_steps' \in {0, 1, 2, 3}
       /\ effective_size(full_size', rotation_steps') =
              IF rotation_steps' \in {1, 3} THEN Swapped(full_size')
                                            ELSE full_size'
       /\ (pc = "keys" /\ pc' = "layout" /\ "R" \in input'.pressed) =>
              LET back == rotate_cw(rotate_cw(rotate_cw(rotation_steps')))
              IN  /\ rotation_steps' # rotation_steps
                  /\ back = rotation_steps
                  /\ effective_size(full_size, back) =
                         effective_size(full_size, rotation_steps)]_vars

\* R has just turned the image back to upright, with no load in between,
\* after the zoom was toggled to the fit zoom of the image on its side
RotationRoundTripWitness ==
    /\ pc = "layout" /\ "R" \in input.pressed
    /\ rotation_steps = 0
    /\ sent = <<>>
    /\ zoom = fit(Screen, Swapped(full_size))
    /\ zoom # fit(Screen, full_size)

\* z is within 0.01 of fz
Near(z, fz) ==
    /\ RLess(RSub(z, fz), Rat(1, 100))
    /\ RLess(RSub(fz, z), Rat(1, 100))

\* C9: a double click and the F key each set zoom to 1.0 when it was within
\* 0.01 of fit_zoom and to fit_zoom otherwise, and set offset to zero.
ToggleFitOr100 ==
    [][((pc = "dblclick" /\ "double_click" \in input'.pressed)
            \/ (pc = "keyF" /\ "F" \in input'.pressed)) =>
           /\ zoom' = IF Near(zoom, fit_zoom) THEN FromInt(1) ELSE fit_zoom
           /\ zoom' \in {FromInt(1), fit_zoom}
           /\ offset' = ZERO]_vars

\* a double click found the zoom close to the fit zoom, not at it, and
\* set 100%
ToggleFitOr100Witness ==
    /\ pc = "keyF" /\ "double_click" \in input.pressed
    /\ zoom_before # <<fit_zoom>>
    /\ Near(zoom_before[1], fit_zoom)
    /\ zoom = FromInt(1) /\ fit_zoom # FromInt(1)
    /\ offset = ZERO

\* C10: a double click and then F in one frame: from fit_zoom (not within
\* 0.01 of 1.0) zoom goes to 1.0 and back to fit_zoom; from 1.0 (fit_zoom
\* not within 0.01 of it) to fit_zoom and back to 1.0; from any other zoom
\* not within 0.01 of fit_zoom it does not come back.
ToggleTwice ==
    [][(pc = "keyF" /\ zoom_before # <<>> /\ "F" \in input'.pressed) =>
           LET z == zoom_before[1]
               far == ~Near(FromInt(1), fit_zoom)
           IN  /\ (z = fit_zoom /\ far) =>
                      zoom = FromInt(1) /\ zoom' = z
               /\ (z = FromInt(1) /\ far) =>
                      zoom = fit_zoom /\ zoom' = z
               /\ (~Near(z, fit_zoom) /\ z # FromInt(1)) =>
                      zoom' # z]_vars

\* both toggles done from a zoom that was neither 1.0 nor near fit_zoom
ToggleTwiceWitness ==
    /\ pc = "scroll" /\ "F" \in input.pressed
    /\ zoom_before # <<>>
    /\ zoom_before[1] # FromInt(1)
    /\ ~Near(zoom_before[1], fit_zoom)
    /\ zoom = FromInt(1)

\* the source point that project puts at the screen position p (z # 0)
unproject(p, center, z, steps, size) ==
    LET half == <<Rat(size[1], 2), Rat(size[2], 2)>>
        v == VSub(p, center)
        back == rotate(<<RDiv(v[1], z), RDiv(v[2], z)>>, 4 - (steps % 4))
    IN  VAdd(back, half)

\* C11: a scroll by the factor f with the pointer hovering at p multiplies
\* zoom by f and moves offset by -(p - center) * (f - 1), and the source
\* point that was painted at p before is painted at p after, for every
\* rotation, offset and zoom.
ZoomAtFixedPoint ==
    [][(pc = "scroll" /\ pc' = "pan" /\ input'.hover # <<>>) =>
           LET p == input'.hover[1]
               f == input'.scroll[1]
               middle == center_of(display_rect)
               center == VAdd(middle, offset)
               under == unproject(p, center, zoom, rotation_steps, full_size)
           IN  /\ zoom' = RMul(zoom, f)
               /\ offset' = VSub(offset, VScale(VSub(p, center), RSub(f, FromInt(1))))
               /\ zoom # FromInt(0) =>
                      project(under, VAdd(middle, offset'), zoom',
                              rotation_steps, full_size) = p]_vars

\* a scroll about the pointer, of an image on its side that was already
\* moved off the middle by an earlier gesture
ZoomAtFixedPointWitness ==
    /\ pc = "pan" /\ input.hover # <<>>
    /\ rotation_steps = 1
    /\ gestures = 2
    /\ display_rect = Screen
    /\ zoom # FromInt(0)
    /\ offset # ZERO

\* C12: fit_zoom scales the effective size of the image to no more than
\* the panel on either side and to exactly the panel on one of them; after
\* a load it becomes the zoom once, in the first frame whose panel is wider
\* than 1, and in no later frame until the next delivery.
FitOnce ==
    [][/\ (pc = "layout" /\ pc' = "dblclick") =>
              LET d == display_rect'
                  es == effective_size(full_size, rotation_steps)
                  w == RMul(fit_zoom', FromInt(es[1]))
                  h == RMul(fit_zoom', FromInt(es[2]))
              IN  /\ ~RLess(FromInt(d[1]), w)
                  /\ ~RLess(FromInt(d[2]), h)
                  /\ w = FromInt(d[1]) \/ h = FromInt(d[2])
                  /\ (framed = 0 /\ d[1] > 1) =>
                         zoom' = fit_zoom' /\ framed' = 1
                  /\ (framed # 0 \/ d[1] <= 1) =>
                         zoom' = zoom /\ framed' = framed
       /\ framed' <= 1
       /\ framed' > framed => pc = "layout"
       /\ framed' < framed => pc = "recv" /\ chan # <<>>]_vars

\* c.png was delivered and turned on its side in the frame of its delivery,
\* and that frame framed it at three times its size
FitOnceWitness ==
    /\ pc = "dblclick" /\ input = NoInput
    /\ current_path = "c.png" /\ Len(sent) > Len(chan)
    /\ rotation_steps = 1
    /\ display_rect = Screen
    /\ framed = 1
    /\ zoom = FromInt(3) /\ fit_zoom = FromInt(3)

\* C13: without a path argument the process ends with status 1 and has
\* loaded nothing; when the first image does not decode the process ends
\* with a failure status; a frame, a navigation or a normal exit happen
\* only after the first image was loaded.
StartupFatal ==
    /\ Len(args) < 2 =>
           /\ pc \in {"main", "exited"}
           /\ pc = "exited" => exit_code = <<1>>
           /\ tiles = <<>> /\ current_path = "" /\ album = <<>>
    /\ (Len(args) >= 2 /\ DecodeFails(args[2])) =>
           /\ pc \in {"main", "new", "exited"}
           /\ pc = "exited" => exit_code \notin {<<>>, <<0>>}
           /\ tiles = <<>> /\ current_path = ""
    /\ (InUpdate \/ exit_code = <<0>> \/ spawned > 0 \/ painted # <<>>) =>
           /\ Len(args) >= 2 /\ ~DecodeFails(args[2])
           /\ tiles # <<>>
           /\ \E i \in 1..Len(sent) + 1 :
                  current_path = IF i > Len(sent) THEN args[2] ELSE sent[i].path

\* the viewer was started on a file that is no image, and has ended
StartupFatalWitness ==
    /\ pc = "exited"
    /\ args = <<"viewer", "notes.txt">>
    /\ exit_code = <<101>>
    /\ spawned = 0 /\ painted = <<>>

\* C14: while the process runs, once every thread has ended a result left
\* in the channel is eventually taken: the channel becomes empty.
EventuallyApplied ==
    (workers = {} /\ chan # <<>>) ~> (chan = <<>> \/ ~Running)

\* the navigation keys among the keys pressed
Arrows(keys) == keys \cap {"ArrowRight", "ArrowLeft"}

\* C15: each navigation key pressed while the current path is in the album
\* spawns one thread, whatever threads already run; a thread ends only by
\* finishing or by failing to decode, and sends at most once; the results
\* applied are never more than the requests made.
OneWorkerPerRequest ==
    [][/\ (pc = "keys" /\ pc' # "keys") =>
              LET n == IF \E i \in 1..Len(album) : album[i] = current_path
                       THEN Cardinality(Arrows(input'.pressed))
                       ELSE 0
              IN  /\ spawned' = spawned + n
                  /\ workers \subseteq workers'
                  /\ Cardinality(workers') = Cardinality(workers) + n
                  /\ Len(requests') = Len(requests) + n
       /\ \A w \in workers :
              (\A v \in workers' : v.id # w.id) =>
                  \/ w.at = "repaint"
                  \/ w.at = "load" /\ DecodeFails(w.path)
       /\ Len(sent') <= Len(sent) + 1
       /\ \A i, j \in 1..Len(sent') : sent'[i].id = sent'[j].id => i = j
       /\ Len(sent') - Len(chan') <= Len(requests')]_vars

\* a request was made while the thread of an earlier request was still
\* loading, and spawned a second thread
OneWorkerPerRequestWitness ==
    /\ pc = "layout"
    /\ input.pressed = {"ArrowRight"}
    /\ spawned = 2
    /\ Cardinality(workers) = 2
    /\ \A w \in workers : w.at = "load"

\* the source rectangle with origin (x, y) and size w x h
SourceRect(x, y, w, h) == [min |-> <<x, y>>, size |-> <<w, h>>]

\* C16: the tiles are in row-major order; the tile of column i and row j
\* starts at (i*L, j*L) and measures min(L, W - i*L) by min(L, H - j*L),
\* each side between 1 and L; a 4000 x 3000 image with L = 2048 gives
\* (0,0) 2048x2048, (2048,0) 1952x2048, (0,2048) 2048x952 and
\* (2048,2048) 1952x952, in that order.
RowMajorGrid ==
    bench.done =>
        LET W == bench.width
            H == bench.height
            L == bench.limit
            cols == CeilDiv(W, L)
            rows == CeilDiv(H, L)
            rects == [k \in 1..Len(bench.tiles) |-> bench.tiles[k].rect]
        IN  /\ Len(rects) = cols * rows
            /\ \A k \in 1..Len(rects) :
                   LET i == (k - 1) % cols
                       j == (k - 1) \div cols
                       w == IF W - i * L < L THEN W - i * L ELSE L
                       h == IF H - j * L < L THEN H - j * L ELSE L
                   IN  /\ rects[k] = SourceRect(i * L, j * L, w, h)
                       /\ 1 <= w /\ w <= L /\ 1 <= h /\ h <= L
            /\ (W = 4000 /\ H = 3000 /\ L = 2048) =>
                   rects = <<SourceRect(0, 0, 2048, 2048),
                             SourceRect(2048, 0, 1952, 2048),
                             SourceRect(0, 2048, 2048, 952),
                             SourceRect(2048, 2048, 1952, 952)>>

\* the 4000 x 3000 image, tiled
RowMajorGridWitness ==
    /\ bench.done
    /\ bench.width = 4000 /\ bench.height = 3000 /\ bench.limit = 2048
    /\ Len(bench.tiles) = 4

RLeq(a, b) == ~RLess(b, a)
Least(S) == CHOOSE a \in S : \A b \in S : RLeq(a, b)
Most(S) == CHOOSE a \in S : \A b \in S : RLeq(b, a)

\* the axis-parallel box around a set of points
Box(points) ==
    [x0 |-> Least({q[1] : q \in points}), x1 |-> Most({q[1] : q \in points}),
     y0 |-> Least({q[2] : q \in points}), y1 |-> Most({q[2] : q \in points})]

\* box a lies in box b
Inside(a, b) ==
    /\ RLeq(b.x0, a.x0) /\ RLeq(a.x1, b.x1)
    /\ RLeq(b.y0, a.y0) /\ RLeq(a.y1, b.y1)

\* boxes a and b share no inner point
Apart(a, b) ==
    \/ RLeq(a.x1, b.x0) \/ RLeq(b.x1, a.x0)
    \/ RLeq(a.y1, b.y0) \/ RLeq(b.y1, a.y0)

\* the pairs of neighbours among the coordinates S
Gaps(S) ==
    {g \in S \X S : RLess(g[1], g[2])
                      /\ ~\E m \in S : RLess(g[1], m) /\ RLess(m, g[2])}

\* the boxes, all inside the box whole and apart from each other, leave no
\* cell of the grid of their edges uncovered
TilesBox(boxes, whole) ==
    LET xs == {b.x0 : b \in boxes} \cup {b.x1 : b \in boxes} \cup {whole.x0, whole.x1}
        ys == {b.y0 : b \in boxes} \cup {b.y1 : b \in boxes} \cup {whole.y0, whole.y1}
    IN  /\ \A b \in boxes : Inside(b, whole)
        /\ \A g \in Gaps(xs), h \in Gaps(ys) :
               \E b \in boxes :
                   Inside([x0 |-> g[1], x1 |-> g[2], y0 |-> h[1], y1 |-> h[2]], b)

\* C17: for every rotation the quads a frame paints are rectangles that lie
\* without gap and without overlap in the rectangle of size
\* effective_size * zoom about display centre + offset, and each corner of
\* a quad is where the paint loop's transform puts that corner of the tile.
QuadsTile ==
    [][(pc = "paint" /\ pc' = "recv") =>
           LET center == VAdd(center_of(display_rect), offset)
               es == effective_size(full_size, rotation_steps)
               hw == RMul(zoom, Rat(es[1], 2))
               hh == RMul(zoom, Rat(es[2], 2))
               whole == [x0 |-> RSub(center[1], hw), x1 |-> RAdd(center[1], hw),
                         y0 |-> RSub(center[2], hh), y1 |-> RAdd(center[2], hh)]
               n == Len(painted')
               box(i) == Box({painted'[i].pos[k] : k \in 1..4})
               at(x, y) == project(Vec2(x, y), center, zoom, rotation_steps, full_size)
           IN  /\ n = Len(tiles)
               /\ \A i \in 1..n :
                      LET r == tiles[i].rect
                          x == r.min[1]
                          y == r.min[2]
                      IN  /\ painted'[i].texture = tiles[i].texture
                          /\ painted'[i].pos =
                                 <<at(x, y), at(x + r.size[1], y),
                                   at(x, y + r.size[2]),
                                   at(x + r.size[1], y + r.size[2])>>
                          /\ {painted'[i].pos[k] : k \in 1..4} \subseteq
                                 {<<box(i).x0, box(i).y0>>, <<box(i).x1, box(i).y0>>,
                                  <<box(i).x0, box(i).y1>>, <<box(i).x1, box(i).y1>>}
               /\ \A i, j \in 1..n : i # j => Apart(box(i), box(j))
               /\ TilesBox({box(i) : i \in 1..n}, whole)]_vars

\* four tiles of an image on its side, panned, were painted
QuadsTileWitness ==
    /\ pc = "recv"
    /\ Len(painted) = 4
    /\ rotation_steps = 1
    /\ zoom = Rat(3, 8)
    /\ offset # ZERO

\* C18: the album is set when the viewer is built and no later step changes
\* it: no key, no thread, no delivery, no gesture, and no change of the
\* directory the threads enumerate again.
AlbumFixed ==
    [][pc # "new" => album' = album]_vars

\* a load was delivered after the directory had lost a file of the album
AlbumFixedWitness ==
    /\ InUpdate
    /\ Len(sent) > Len(chan)
    /\ current_path # args[2]
    /\ album = <<"a.png", "b.png", "c.png">>
    /\ ReadAlbum(disk) = <<"a.png", "b.png">>

\* the entries of the album alb
Members(alb) == {alb[i] : i \in 1..Len(alb)}

\* C19: when the path the viewer was opened on is in the album, the current
\* path is in the album in every frame; when the current path is not in
\* the album, the navigation keys spawn no thread and change nothing of
\* the viewer.
CurrentInAlbum ==
    [][/\ (InUpdate' /\ args[2] \in Members(album')) =>
              current_path' \in Members(album')
       /\ (pc = "keys" /\ pc' # "keys" /\ current_path \notin Members(album)) =>
              /\ workers' = workers
              /\ spawned' = spawned
              /\ requests' = requests
              /\ input'.pressed \subseteq {"ArrowRight", "ArrowLeft"} =>
                     UNCHANGED <<viewer, chan, sent, exit_code>>]_vars

\* both navigation keys were pressed in a viewer opened on a file that the
\* album, though not empty, does not hold
CurrentInAlbumWitness ==
    /\ pc = "layout"
    /\ input.pressed = {"ArrowRight", "ArrowLeft"}
    /\ current_path = "x.PNM"
    /\ album # <<>>
    /\ spawned = 0 /\ workers = {}

\* the paths given to the thread id, as far as the state still shows them
PathsOf(id) ==
    {w.path : w \in {v \in workers : v.id = id}}
        \cup {sent[k].path : k \in {i \in 1..Len(sent) : sent[i].id = id}}

\* C20: requests in the same direction made with the same number of results
\* applied are given the same path, the neighbour of the image current
\* then; and when two or more Next requests were all made before any result
\* was applied and all their results have been applied, the current image is
\* the entry after the one the viewer was opened on.
TargetFromCurrent ==
    LET n == Len(requests)
    IN  /\ \A j, k \in 1..n :
               (requests[j].delta = requests[k].delta
                    /\ requests[j].applied = requests[k].applied) =>
                   \A p \in PathsOf(j), q \in PathsOf(k) : p = q
        /\ (/\ n >= 2
            /\ \A k \in 1..n : requests[k].delta = 1 /\ requests[k].applied = 0
            /\ Len(sent) = n /\ chan = <<>>) =>
               \E i \in 1..Len(album) :
                   /\ album[i] = args[2]
                   /\ current_path = album[IF i = Len(album) THEN 1 ELSE i + 1]

\* two Next requests made on b.png before anything was applied, both
\* applied: the viewer shows c.png
TargetFromCurrentWitness ==
    /\ Len(requests) = 2
    /\ \A k \in 1..2 : requests[k].delta = 1 /\ requests[k].applied = 0
    /\ Len(sent) = 2 /\ chan = <<>> /\ workers = {}
    /\ album = <<"a.png", "b.png", "c.png">>
    /\ args[2] = "b.png"
    /\ current_path = "c.png"

====
